---- MODULE Spec2Model ----
(***************************************************************************)
(* The post-build bundle analysis script scripts/analyze-build-output.mjs. *)
(* One run of the script is a straight line: banner, missing-root check,   *)
(* findFuncDirs, empty check, one report per .func directory, banner.      *)
(* The filesystem below .vercel/output/functions is the input; the order   *)
(* in which readdirSync lists a directory is chosen by the filesystem.     *)
(* Strings are TLA+ strings; the glyphs U+26A0, U+2713 and U+2014 of the   *)
(* script's messages are written "(!)", "(ok)" and "-".                    *)
(***************************************************************************)
EXTENDS Integers, Sequences, FiniteSets, TLC

VARIABLES disk, pc, funcDirs, idx, out, exitCode, reports, prev

vars == <<disk, pc, funcDirs, idx, out, exitCode, reports, prev>>

\* Largest size in bytes of a generated file other than a descriptor.
MaxSize == 2
\* Largest number of regular files in a generated tree.
MaxFiles == 3

(***************************************************************************)
(* String primitives of the JavaScript runtime.                            *)
(***************************************************************************)
EndsWith(s, suffix) ==
    /\ Len(s) >= Len(suffix)
    /\ SubSeq(s, Len(s) - Len(suffix) + 1, Len(s)) = suffix

StartsWith(s, prefix) ==
    /\ Len(s) >= Len(prefix)
    /\ SubSeq(s, 1, Len(prefix)) = prefix

Includes(s, part) ==
    \E i \in 1..(Len(s) - Len(part) + 1) : SubSeq(s, i, i + Len(part) - 1) = part

UpperLetters == "ABCDEFGHIJKLMNOPQRSTUVWXYZ"
LowerLetters == "abcdefghijklmnopqrstuvwxyz"

\* The lower-case letter of every upper-case letter.
LowerMap ==
    [c \in { SubSeq(UpperLetters, i, i) : i \in 1..Len(UpperLetters) } |->
        LET i == CHOOSE j \in 1..Len(UpperLetters) : SubSeq(UpperLetters, j, j) = c
        IN  SubSeq(LowerLetters, i, i)]

LowerChar(c) == IF c \in DOMAIN LowerMap THEN LowerMap[c] ELSE c

RECURSIVE ToLowerCase(_)
ToLowerCase(s) ==
    IF s = "" THEN ""
    ELSE LowerChar(SubSeq(s, 1, 1)) \o ToLowerCase(SubSeq(s, 2, Len(s)))

RECURSIVE Repeat(_, _)
Repeat(s, n) == IF n = 0 THEN "" ELSE s \o Repeat(s, n - 1)

\* The characters file names are written with, in code-unit order.
CodeOrder == "-.0123456789ABCDEFGHIJKLMNOPQRSTUVWXYZ_abcdefghijklmnopqrstuvwxyz"

CharCode(c) == CHOOSE i \in 1..Len(CodeOrder) : SubSeq(CodeOrder, i, i) = c

\* a < b in the order of JavaScript's string comparison (by code unit).
RECURSIVE StrLess(_, _)
StrLess(a, b) ==
    IF b = "" THEN FALSE
    ELSE IF a = "" THEN TRUE
    ELSE LET ca == CharCode(SubSeq(a, 1, 1))
             cb == CharCode(SubSeq(b, 1, 1))
         IN  IF ca # cb THEN ca < cb
             ELSE StrLess(SubSeq(a, 2, Len(a)), SubSeq(b, 2, Len(b)))

(***************************************************************************)
(* node:path on a POSIX host.                                              *)
(***************************************************************************)
pathSep == "/"

PathJoin(dir, name) == dir \o pathSep \o name

\* path.relative(base, full) for a path full that lies below base.
PathRelative(base, full) == SubSeq(full, Len(base) + Len(pathSep) + 1, Len(full))

\* s.split(path.sep)[0]: the characters before the first separator.
RECURSIVE SplitFirst(_)
SplitFirst(s) ==
    IF s = "" \/ SubSeq(s, 1, 1) = pathSep THEN ""
    ELSE SubSeq(s, 1, 1) \o SplitFirst(SubSeq(s, 2, Len(s)))

appDir == "/app"
outputDir == PathJoin(PathJoin(PathJoin(appDir, ".vercel"), "output"), "functions")

(***************************************************************************)
(* The filesystem.  disk.tree is a set of directory entries                *)
(* [dir, name, type, size, content]: the entry name of directory dir.      *)
(* disk.unreadable holds the directories whose listing fails (EACCES).     *)
(***************************************************************************)
descriptorName == ".vc-config.json"

\* The descriptor texts a build may leave: well-formed, well-formed with the
\* collapsed common ancestor, well-formed without a handler, and truncated.
ConfigPlain == "{\"handler\":\"index.js\",\"runtime\":\"nodejs22.x\"}"
ConfigPath0 == "{\"handler\":\"vercel/path0/index.js\",\"runtime\":\"nodejs22.x\"}"
ConfigNoHandler == "{\"runtime\":\"nodejs22.x\"}"
ConfigTruncated == "{\"handler\":"
ConfigTexts == {ConfigPlain, ConfigPath0, ConfigNoHandler, ConfigTruncated}

\* Candidate regular files, as path segments below outputDir.
FileLeaves ==
    { <<"a.func", descriptorName>>,
      <<"a.func", "src", "x.js">>,
      <<"a.func", "proc", "p">>,
      <<"a.func", "Usr", "u">>,
      <<"a.func", "node22", "n">>,
      <<"a.func", "constructor", "c">>,
      <<"a.func", "src", "n.func", "y">>,
      <<"sub", "b.func", "src", "x.js">> }

\* Candidate empty directories.
DirLeaves == { <<"sub", "old.func.bak">> }

\* Directories whose listing may be denied.
UnreadableCandidates ==
    { PathJoin(outputDir, "sub"), PathJoin(PathJoin(outputDir, "a.func"), "src") }

RECURSIVE JoinSegs(_, _)
JoinSegs(base, segs) ==
    IF segs = <<>> THEN base ELSE JoinSegs(PathJoin(base, Head(segs)), Tail(segs))

\* The entries a leaf contributes: its ancestor directories and itself.
LeafEntries(segs, type, size, content) ==
    { [dir |-> JoinSegs(outputDir, SubSeq(segs, 1, j - 1)),
       name |-> segs[j],
       type |-> IF j = Len(segs) THEN type ELSE "dir",
       size |-> IF j = Len(segs) THEN size ELSE 0,
       content |-> IF j = Len(segs) THEN content ELSE ""] : j \in 1..Len(segs) }

TreeOf(files, dirs, sizeOf, text) ==
    UNION ( { LeafEntries(f, "file",
                          IF f[Len(f)] = descriptorName THEN Len(text) ELSE sizeOf[f],
                          IF f[Len(f)] = descriptorName THEN text ELSE "") : f \in files }
            \cup { LeafEntries(d, "dir", 0, "") : d \in dirs } )

EntryPath(e) == PathJoin(e.dir, e.name)

DirPaths(tree) == { EntryPath(e) : e \in { x \in tree : x.type = "dir" } }

\* Every name a generated tree can hold.
NameUniverse == UNION { { l[j] : j \in 1..Len(l) } : l \in FileLeaves \cup DirLeaves }

\* The position of every name in code-unit (lexicographic) order.
LexRank == [n \in NameUniverse |-> Cardinality({ m \in NameUniverse : StrLess(m, n) })]

\* The orders in which the filesystem may list entries: a rank per name.
ListingOrders == { LexRank, [n \in NameUniverse |-> Cardinality(NameUniverse) - LexRank[n]] }

(***************************************************************************)
(* node:fs.                                                                *)
(***************************************************************************)
existsSync(p) == IF p = outputDir THEN disk.rootExists
                 ELSE \E e \in disk.tree : EntryPath(e) = p

RECURSIVE SortByRank(_, _)
SortByRank(entries, order) ==
    IF entries = {} THEN <<>>
    ELSE LET first == CHOOSE e \in entries :
                          \A o \in entries : order[e.name] <= order[o.name]
         IN  <<first>> \o SortByRank(entries \ {first}, order)

\* fs.readdirSync(dir, { withFileTypes: true }) of a readable directory.
readdirSync(dir, order) == SortByRank({ e \in disk.tree : e.dir = dir }, order)

readFileSync(p) == (CHOOSE e \in disk.tree : EntryPath(e) = p).content

Return(v) == [threw |-> FALSE, err |-> "", val |-> v]
Throw(e) == [threw |-> TRUE, err |-> e, val |-> <<>>]

(***************************************************************************)
(* findFuncDirs, lines 25-38.                                              *)
(***************************************************************************)
isFuncDirNameIncludes(name) == Includes(name, ".func")

isFuncDirName(name) == EndsWith(name, ".func")

RECURSIVE findFuncDirs(_, _)
RECURSIVE findFuncDirsLoop(_, _, _, _)
findFuncDirs(dir, order) ==
    IF dir \in disk.unreadable THEN Throw("EACCES")
    ELSE findFuncDirsLoop(dir, readdirSync(dir, order), order, <<>>)

findFuncDirsLoop(dir, entries, order, results) ==
    IF entries = <<>> THEN Return(results)
    ELSE LET entry == Head(entries)
             full == PathJoin(dir, entry.name)
         IN  IF entry.type = "dir"
             THEN IF isFuncDirName(entry.name)
                  THEN findFuncDirsLoop(dir, Tail(entries), order, Append(results, full))
                  ELSE LET inner == findFuncDirs(full, order)
                       IN  IF inner.threw THEN inner
                           ELSE findFuncDirsLoop(dir, Tail(entries), order,
                                                 results \o inner.val)
             ELSE findFuncDirsLoop(dir, Tail(entries), order, results)

(***************************************************************************)
(* walkFiles, lines 41-53.                                                 *)
(***************************************************************************)
RECURSIVE walkFiles(_, _, _)
RECURSIVE walkFilesLoop(_, _, _, _, _)
walkFiles(dir, base, order) ==
    IF dir \in disk.unreadable THEN Throw("EACCES")
    ELSE walkFilesLoop(dir, base, readdirSync(dir, order), order, <<>>)

walkFilesLoop(dir, base, entries, order, results) ==
    IF entries = <<>> THEN Return(results)
    ELSE LET entry == Head(entries)
             full == PathJoin(dir, entry.name)
         IN  IF entry.type = "dir"
             THEN LET inner == walkFiles(full, base, order)
                  IN  IF inner.threw THEN inner
                      ELSE walkFilesLoop(dir, base, Tail(entries), order,
                                         results \o inner.val)
             ELSE walkFilesLoop(dir, base, Tail(entries), order,
                                Append(results, [path |-> PathRelative(base, full),
                                                 size |-> entry.size]))

(***************************************************************************)
(* formatSize, lines 55-59.  toFixed(1) of bytes / 2^k is exact binary     *)
(* arithmetic, rounded to the nearest tenth, a tie to the larger.          *)
(***************************************************************************)
ToFixed1(bytes, unit) ==
    LET tenths == (20 * bytes + unit) \div (2 * unit)
    IN  ToString(tenths \div 10) \o "." \o ToString(tenths % 10)

formatSize(bytes) ==
    IF bytes >= 1024 * 1024 THEN ToFixed1(bytes, 1024 * 1024) \o " MB"
    ELSE IF bytes >= 1024 THEN ToFixed1(bytes, 1024) \o " KB"
    ELSE ToString(bytes) \o " B"

(***************************************************************************)
(* The descriptor, lines 73-82.  A JavaScript value is [t, v]: a string or *)
(* undefined.                                                              *)
(***************************************************************************)
Str(v) == [t |-> "string", v |-> v]
Undefined == [t |-> "undefined", v |-> ""]

\* A value inside a template literal.
Interpolate(x) == IF x.t = "undefined" THEN "undefined" ELSE x.v

\* JSON.parse on the texts of ConfigTexts; any other text is not JSON.
JSONparse(text) ==
    CASE text = ConfigPlain ->
           Return([handler |-> Str("index.js"), runtime |-> Str("nodejs22.x")])
      [] text = ConfigPath0 ->
           Return([handler |-> Str("vercel/path0/index.js"), runtime |-> Str("nodejs22.x")])
      [] text = ConfigNoHandler ->
           Return([handler |-> Undefined, runtime |-> Str("nodejs22.x")])
      [] OTHER -> Throw("SyntaxError")

path0Warning ==
    "  (!) Handler contains \"vercel/path0\" - common ancestor likely dropped to /"

\* The lines the descriptor step prints, and whether it threw after them.
readVcConfig(funcDir) ==
    LET vcConfigPath == PathJoin(funcDir, descriptorName)
    IN  IF ~existsSync(vcConfigPath) THEN Return(<<>>)
        ELSE LET parsed == JSONparse(readFileSync(vcConfigPath))
                 vcConfig == parsed.val
                 printed == << "  Handler: " \o Interpolate(vcConfig.handler),
                               "  Runtime: " \o Interpolate(vcConfig.runtime) >>
             IN  IF parsed.threw THEN parsed
                 ELSE IF vcConfig.handler.t # "string"
                      THEN [threw |-> TRUE, err |-> "TypeError", val |-> printed]
                      ELSE IF Includes(vcConfig.handler.v, "vercel/path0")
                           THEN Return(Append(printed, path0Warning))
                           ELSE Return(printed)

(***************************************************************************)
(* Grouping and ordering, lines 91-104.  groups is the object's own        *)
(* properties in creation order (no name of NameUniverse is an array       *)
(* index, so Object.entries lists them in that order).                     *)
(***************************************************************************)
\* The properties the object literal {} inherits from Object.prototype.
ObjectPrototypeKeys ==
    { "constructor", "hasOwnProperty", "isPrototypeOf", "propertyIsEnumerable",
      "toLocaleString", "toString", "valueOf", "__proto__",
      "__defineGetter__", "__defineSetter__", "__lookupGetter__", "__lookupSetter__" }

topDirOf(relPath) ==
    LET first == SplitFirst(relPath) IN IF first = "" THEN "(root)" ELSE first

\* One iteration of the loop of lines 93-98.  groups[topDir] is truthy for an
\* inherited property too: then count and size are updated on the inherited
\* object and groups gets no own property.
addToGroups(groups, f) ==
    LET topDir == topDirOf(f.path)
        own == { i \in 1..Len(groups) : groups[i].dir = topDir }
    IN  IF own # {}
        THEN [i \in 1..Len(groups) |->
                 IF i \in own
                 THEN [groups[i] EXCEPT !.count = @ + 1, !.size = @ + f.size]
                 ELSE groups[i]]
        ELSE IF topDir \in ObjectPrototypeKeys THEN groups
        ELSE Append(groups, [dir |-> topDir, count |-> 1, size |-> f.size])

RECURSIVE groupFiles(_, _)
groupFiles(files, groups) ==
    IF files = <<>> THEN groups
    ELSE groupFiles(Tail(files), addToGroups(groups, Head(files)))

\* Array.prototype.sort with (a, b) => b[1].size - a[1].size: stable.
insertBySize(s, x) ==
    LET k == Cardinality({ i \in 1..Len(s) : s[i].size >= x.size })
    IN  SubSeq(s, 1, k) \o <<x>> \o SubSeq(s, k + 1, Len(s))

RECURSIVE sortBySize(_, _)
sortBySize(entries, acc) ==
    IF entries = <<>> THEN acc
    ELSE sortBySize(Tail(entries), insertBySize(acc, Head(entries)))

(***************************************************************************)
(* Suspicious directories, lines 106-121.                                  *)
(***************************************************************************)
systemDirPatterns == { "uv", "node22", "node20", "node18", ".vercel", "usr", "opt", "tmp" }

isSuspiciousCaseSensitive(dir) == \E p \in systemDirPatterns : StartsWith(dir, p)

isSuspicious(dir) ==
    LET lower == ToLowerCase(dir) IN \E p \in systemDirPatterns : StartsWith(lower, p)

RECURSIVE filterSuspicious(_)
filterSuspicious(s) ==
    IF s = <<>> THEN <<>>
    ELSE IF isSuspicious(Head(s).dir) THEN <<Head(s)>> \o filterSuspicious(Tail(s))
    ELSE filterSuspicious(Tail(s))

groupLine(g) ==
    "    " \o g.dir \o ": " \o ToString(g.count) \o " files, " \o formatSize(g.size)

RECURSIVE groupLines(_)
groupLines(s) == IF s = <<>> THEN <<>> ELSE <<groupLine(Head(s))>> \o groupLines(Tail(s))

RECURSIVE sumSizes(_)
sumSizes(s) == IF s = <<>> THEN 0 ELSE Head(s).size + sumSizes(Tail(s))

warningHeader == "\n  (!) SYSTEM DIRECTORIES DETECTED IN BUNDLE:"
advisoryLines == << "\n  This confirms the NFT tracing bug - system files are being bundled.",
                    "  See: https://github.com/sveltejs/kit/issues/13764" >>
confirmationLine == "\n  (ok) No system directories detected in bundle."

suspicionLines(suspiciousDirs) ==
    IF Len(suspiciousDirs) > 0
    THEN <<warningHeader>> \o groupLines(suspiciousDirs) \o advisoryLines
    ELSE <<confirmationLine>>

(***************************************************************************)
(* The body of the loop over funcDirs, lines 68-122: the lines it prints,  *)
(* whether an exception left it, and its local variables.                  *)
(***************************************************************************)
functionHeader(funcName) == "\nFunction: " \o funcName

reportUnit(funcDir, order) ==
    LET funcName == PathRelative(outputDir, funcDir)
        header == << functionHeader(funcName), Repeat("-", 50) >>
        config == readVcConfig(funcDir)
        walked == walkFiles(funcDir, funcDir, order)
        files == walked.val
        totalSize == sumSizes(files)
        groups == groupFiles(files, <<>>)
        sorted == sortBySize(groups, <<>>)
        suspiciousDirs == filterSuspicious(sorted)
        none == [funcName |-> funcName, stage |-> "descriptor", files |-> <<>>,
                 totalSize |-> 0, sorted |-> <<>>, suspiciousDirs |-> <<>>]
    IN  IF config.threw
        THEN [threw |-> TRUE, err |-> config.err, lines |-> header \o config.val,
              locals |-> none]
        ELSE IF walked.threw
        THEN [threw |-> TRUE, err |-> walked.err, lines |-> header \o config.val,
              locals |-> [none EXCEPT !.stage = "inventory"]]
        ELSE [threw |-> FALSE, err |-> "",
              lines |-> header \o config.val
                        \o << "  Total files: " \o ToString(Len(files)),
                              "  Total size: " \o formatSize(totalSize),
                              "\n  Top-level directories:" >>
                        \o groupLines(sorted)
                        \o suspicionLines(suspiciousDirs),
              locals |-> [funcName |-> funcName, stage |-> "done", files |-> files,
                          totalSize |-> totalSize, sorted |-> sorted,
                          suspiciousDirs |-> suspiciousDirs]]

(***************************************************************************)
(* The run.  pc is the position in the script, out is standard output, one *)
(* element per console.log call, exitCode is -1 while the process runs and *)
(* 1 after an uncaught exception.  reports records the local variables of  *)
(* every loop iteration entered.  prev holds the output of an earlier run  *)
(* on the same tree, when the script is run again.                         *)
(***************************************************************************)
openingBanner == << "\n========================================",
                    "  NFT Bundle Analysis (post-build)",
                    "========================================\n" >>
closingBanner == "\n========================================\n"
missingRootMessage == "No .vercel/output/functions/ directory found. Skipping analysis."
noUnitsMessage == "No .func directories found in output."

FileChoices == { s \in SUBSET FileLeaves : Cardinality(s) <= MaxFiles }

Init ==
    /\ \E exists \in BOOLEAN, files \in FileChoices, dirs \in SUBSET DirLeaves,
          text \in ConfigTexts :
          \E sizeOf \in [files -> 1..MaxSize] :
             LET tree == TreeOf(files, dirs, sizeOf, text)
             IN  /\ exists \/ (files = {} /\ dirs = {})
                 /\ (\E f \in files : f[Len(f)] = descriptorName) \/ text = ConfigPlain
                 /\ \E unreadable \in
                        {{}} \cup { {d} : d \in UnreadableCandidates \cap DirPaths(tree) } :
                        disk = [rootExists |-> exists, tree |-> tree,
                                unreadable |-> unreadable]
    /\ pc = "start"
    /\ funcDirs = <<>>
    /\ idx = 1
    /\ out = <<>>
    /\ exitCode = -1
    /\ reports = <<>>
    /\ prev = <<>>

\* Lines 15-22: the opening banner and the missing-root exit.
Start ==
    /\ pc = "start"
    /\ IF ~existsSync(outputDir)
       THEN /\ out' = openingBanner \o <<missingRootMessage>>
            /\ pc' = "exited"
            /\ exitCode' = 0
       ELSE /\ out' = openingBanner
            /\ pc' = "locate"
            /\ exitCode' = exitCode
    /\ UNCHANGED <<disk, funcDirs, idx, reports, prev>>

\* Lines 61-66: findFuncDirs and the no-units exit.
Locate ==
    /\ pc = "locate"
    /\ \E order \in ListingOrders :
          LET found == findFuncDirs(outputDir, order)
          IN  IF found.threw
              THEN /\ pc' = "exited"
                   /\ exitCode' = 1
                   /\ UNCHANGED <<out, funcDirs>>
              ELSE IF Len(found.val) = 0
              THEN /\ out' = Append(out, noUnitsMessage)
                   /\ pc' = "exited"
                   /\ exitCode' = 0
                   /\ funcDirs' = found.val
              ELSE /\ funcDirs' = found.val
                   /\ pc' = "loop"
                   /\ UNCHANGED <<out, exitCode>>
    /\ idx' = 1
    /\ UNCHANGED <<disk, reports, prev>>

\* Lines 68-122: one iteration of the loop over funcDirs.
ReportUnit ==
    /\ pc = "loop"
    /\ idx <= Len(funcDirs)
    /\ \E order \in ListingOrders :
          LET r == reportUnit(funcDirs[idx], order)
          IN  /\ out' = out \o r.lines
              /\ reports' = Append(reports, r.locals)
              /\ IF r.threw
                 THEN /\ pc' = "exited"
                      /\ exitCode' = 1
                      /\ idx' = idx
                 ELSE /\ idx' = idx + 1
                      /\ UNCHANGED <<pc, exitCode>>
    /\ UNCHANGED <<disk, funcDirs, prev>>

\* Line 124: the closing banner, and the end of the script.
Finish ==
    /\ pc = "loop"
    /\ idx > Len(funcDirs)
    /\ out' = Append(out, closingBanner)
    /\ pc' = "exited"
    /\ exitCode' = 0
    /\ UNCHANGED <<disk, funcDirs, idx, reports, prev>>

\* The script is run a second time on the unmodified tree.
Rerun ==
    /\ pc = "exited"
    /\ prev = <<>>
    /\ prev' = << [out |-> out, exitCode |-> exitCode] >>
    /\ pc' = "start"
    /\ funcDirs' = <<>>
    /\ idx' = 1
    /\ out' = <<>>
    /\ exitCode' = -1
    /\ reports' = <<>>
    /\ UNCHANGED disk

Next == Start \/ Locate \/ ReportUnit \/ Finish

Spec == Init /\ [][Next]_vars

NextTwoRuns == Next \/ Rerun

SpecTwoRuns == Init /\ [][NextTwoRuns]_vars

(***************************************************************************)
(* Reading the output back: the report block of each unit.                 *)
(***************************************************************************)
IsHeaderLine(line) == StartsWith(line, "\nFunction: ")

HeaderIndexes == { i \in 1..Len(out) : IsHeaderLine(out[i]) }

\* The lines of the k-th unit block: from its header up to the next header,
\* the closing banner or the end of the output.
BlockOf(k) ==
    LET start == CHOOSE i \in HeaderIndexes :
                     Cardinality({ j \in HeaderIndexes : j < i }) = k - 1
        later == { j \in HeaderIndexes : j > start }
        stop == IF later # {}
                THEN (CHOOSE j \in later : \A o \in later : j <= o) - 1
                ELSE IF out[Len(out)] = closingBanner THEN Len(out) - 1
                ELSE Len(out)
    IN  SubSeq(out, start, stop)

Lines(block) == { block[i] : i \in 1..Len(block) }

Done(k) == k \in 1..Len(reports) /\ reports[k].stage = "done"

\* findFuncDirs has returned in this run.
Located ==
    /\ disk.rootExists
    /\ pc = "loop" \/ (pc = "exited" /\ (exitCode = 0 \/ Len(reports) > 0))

UnitSuffixDirs == { e \in disk.tree : e.type = "dir" /\ EndsWith(e.name, ".func") }

InsideUnit(p) == \E a \in UnitSuffixDirs : StartsWith(p, EntryPath(a) \o "/")

(***************************************************************************)
(* C7.  Once findFuncDirs has returned, funcDirs holds exactly the         *)
(* directories below the output root whose name ends in ".func" and that   *)
(* have no ancestor below the root with that suffix, each once, and no     *)
(* returned path lies inside another returned path.                        *)
(***************************************************************************)
C7_LocatorRule ==
    Located =>
        /\ { funcDirs[i] : i \in 1..Len(funcDirs) }
               = { EntryPath(e) : e \in { u \in UnitSuffixDirs : ~InsideUnit(EntryPath(u)) } }
        /\ \A i, j \in 1..Len(funcDirs) :
               i # j => /\ funcDirs[i] # funcDirs[j]
                        /\ ~StartsWith(funcDirs[i], funcDirs[j] \o "/")

\* Two units are returned, one below a directory that was descended into,
\* while a ".func" directory inside a unit and a directory that merely
\* contains ".func" in its name are in the tree.
C7_Witness ==
    /\ Located
    /\ Len(funcDirs) = 2
    /\ \E i \in 1..2 : funcDirs[i] = PathJoin(PathJoin(outputDir, "sub"), "b.func")
    /\ \E u \in UnitSuffixDirs : InsideUnit(EntryPath(u))
    /\ \E e \in disk.tree : e.name = "old.func.bak"

(***************************************************************************)
(* C6.  In every unit report that was rendered, a group of the table is    *)
(* listed in the warning section exactly when its lowercased name starts   *)
(* with one of the patterns; the block ends either with the warning        *)
(* section (header, the flagged groups and only those, advisory) when a    *)
(* group is flagged, or else with the single confirmation line, never      *)
(* both.  "node22" and "usr" are flagged, "app" and "lib" are not.         *)
(***************************************************************************)
C6_Matches(g) ==
    LET lower == ToLowerCase(g.dir)
    IN  \E p \in { "uv", "node22", "node20", "node18", ".vercel", "usr", "opt", "tmp" } :
           StartsWith(lower, p)

C6_Tail(block, n) == SubSeq(block, Len(block) - n + 1, Len(block))

C1_DescriptorFails(funcDir) ==
    /\ existsSync(PathJoin(funcDir, descriptorName))
    /\ LET parsed == JSONparse(readFileSync(PathJoin(funcDir, descriptorName)))
       IN  parsed.threw \/ parsed.val.handler.t # "string"

C1_InventoryFails(funcDir) ==
    \E d \in disk.unreadable : StartsWith(d, funcDir \o "/")

C1_ErrorIsolation ==
    ( /\ pc = "exited"
      /\ Len(funcDirs) >= 2
      /\ \E i \in 1..Len(funcDirs) :
            C1_DescriptorFails(funcDirs[i]) \/ C1_InventoryFails(funcDirs[i]) )
    => /\ exitCode = 0
       /\ \A i \in 1..Len(funcDirs) :
             functionHeader(PathRelative(outputDir, funcDirs[i])) \in Lines(out)
       /\ out[Len(out)] = closingBanner

(***************************************************************************)
(* C2.  When the tree has no deployable unit (the output root is missing,  *)
(* or it holds no directory whose name ends in ".func"), the run ends with *)
(* exit code 0 and its output holds the nothing-to-analyze message and no  *)
(* unit block.                                                             *)
(***************************************************************************)
C2_NoUnitsMessage ==
    ( pc = "exited" /\ (~disk.rootExists \/ UnitSuffixDirs = {}) )
    => /\ exitCode = 0
       /\ missingRootMessage \in Lines(out) \/ noUnitsMessage \in Lines(out)
       /\ HeaderIndexes = {}

(***************************************************************************)
(* C3.  In every rendered unit report, every inventoried file belongs to   *)
(* exactly one group of the table, the group file counts sum to the        *)
(* reported total file count and the group sizes sum to the total size.    *)
(***************************************************************************)
RECURSIVE C3_SumCounts(_)
C3_SumCounts(s) == IF s = <<>> THEN 0 ELSE Head(s).count + C3_SumCounts(Tail(s))

C3_LosslessPartition ==
    \A k \in 1..Len(reports) :
       Done(k) =>
          LET r == reports[k]
          IN  /\ \A i \in 1..Len(r.files) :
                    Cardinality({ j \in 1..Len(r.sorted) :
                                     r.sorted[j].dir = topDirOf(r.files[i].path) }) = 1
              /\ C3_SumCounts(r.sorted) = Len(r.files)
              /\ ("  Total files: " \o ToString(C3_SumCounts(r.sorted))) \in Lines(BlockOf(k))
              /\ sumSizes(r.sorted) = r.totalSize

(***************************************************************************)
(* C4.  In every rendered unit report the group table is in descending     *)
(* order of size, and two groups of equal size are in lexicographic order  *)
(* of their names.                                                         *)
(***************************************************************************)
C4_TableOrder ==
    \A k \in 1..Len(reports) :
       Done(k) =>
          \A i, j \in 1..Len(reports[k].sorted) :
             i < j =>
                LET a == reports[k].sorted[i]
                    b == reports[k].sorted[j]
                IN  a.size > b.size \/ (a.size = b.size /\ StrLess(a.dir, b.dir))

(***************************************************************************)
(* C5.  After a run over two units, one whose files are all under "src"    *)
(* and one that also has files under a top-level "proc", the first block   *)
(* holds the confirmation line and no warning section, and the second      *)
(* holds the warning section with the line of "proc", its file count and   *)
(* its size.                                                               *)
(***************************************************************************)
C5_Under(files, top) ==
    SelectSeq(files, LAMBDA f : StartsWith(f.path, top \o pathSep))

C5_EndToEnd ==
    \A a, b \in 1..Len(reports) :
       ( /\ pc = "exited" /\ exitCode = 0 /\ Len(reports) = 2
         /\ Done(a) /\ Done(b) /\ a # b
         /\ reports[a].files # <<>>
         /\ C5_Under(reports[a].files, "src") = reports[a].files
         /\ C5_Under(reports[b].files, "src") # <<>>
         /\ C5_Under(reports[b].files, "proc") # <<>> )
       => /\ confirmationLine \in Lines(BlockOf(a))
          /\ warningHeader \notin Lines(BlockOf(a))
          /\ LET proc == C5_Under(reports[b].files, "proc")
                 block == BlockOf(b)
             IN  \E i, j \in 1..Len(block) :
                    /\ i < j
                    /\ block[i] = warningHeader
                    /\ block[j] = groupLine([dir |-> "proc", count |-> Len(proc),
                                             size |-> sumSizes(proc)])

(***************************************************************************)
(* C8.  When the process has ended, the first line of its output is the    *)
(* opening banner and the last line is the closing banner.                 *)
(***************************************************************************)
C8_Banners ==
    pc = "exited" =>
        /\ Len(out) > Len(openingBanner)
        /\ SubSeq(out, 1, Len(openingBanner)) = openingBanner
        /\ out[Len(out)] = closingBanner

(***************************************************************************)
(* C9.  A second run on the unmodified tree prints the output of the first *)
(* run, whatever the order in which the filesystem lists the entries.      *)
(* Stated for two runs that both end with exit code 0.                     *)
(***************************************************************************)
C9_Determinism ==
    (pc = "exited" /\ exitCode = 0 /\ prev # <<>> /\ prev[1].exitCode = 0)
    => out = prev[1].out

(***************************************************************************)
(* C10.  In every rendered unit report, a file inside a subdirectory is    *)
(* counted in the group named by the first segment of its relative path,   *)
(* and a file directly at the unit root is counted in the group "(root)"   *)
(* and in no group named after the file.                                   *)
(***************************************************************************)
C10_Key(relPath) == IF Includes(relPath, pathSep) THEN SplitFirst(relPath) ELSE "(root)"

C10_GroupKey ==
    \A k \in 1..Len(reports) :
       Done(k) =>
          LET r == reports[k]
              keys == { C10_Key(r.files[i].path) : i \in 1..Len(r.files) }
              table == { r.sorted[j].dir : j \in 1..Len(r.sorted) }
          IN  /\ table = keys
              /\ \A j \in 1..Len(r.sorted) :
                    r.sorted[j].count
                       = Cardinality({ i \in 1..Len(r.files) :
                                          C10_Key(r.files[i].path) = r.sorted[j].dir })

====
